---------------------------- MODULE Spec2Model ----------------------------
(***************************************************************************)
(* Model of the Khanda server (src/khandaServer.py, src/khanda_structs.py) *)
(* : the worker threads, the queues that connect them, the device list and *)
(* the event log.                                                          *)
(*                                                                         *)
(* Strings are modelled as sequences of atoms, so that split("+"),         *)
(* replace() and string concatenation are computed and not assumed:        *)
(* "SENSOR+10.0.0.5" is <<"SENSOR", "+", "10.0.0.5">>.  A raw frame is a    *)
(* sequence of tokens: braces, key/value pairs, control characters, junk.  *)
(*                                                                         *)
(* Each method is modelled statement by statement as written.  The stray   *)
(* `continue` of startWorkers (line 186) is read as a statement without    *)
(* effect.                                                                 *)
(***************************************************************************)
EXTENDS Integers, Sequences, FiniteSets, TLC

(***************************************************************************)
(* Bounds of the model.                                                    *)
(***************************************************************************)
\* frames (UDP datagrams and serial lines) that arrive in one run
MaxFrames == 2
\* calls of the methods of the server (serial_start, connect, startWorkers,
\* stopWorkers, CMDWorker, attach_PSU, detach_PSU, QueueCommand) in one run
MaxOps == 3
\* characters in the payload of a message given to the encoder
MaxLen == 2

(***************************************************************************)
(* Strings.                                                                *)
(***************************************************************************)
Str(a) == <<a>>

RECURSIVE replace(_, _, _)
\* s.replace(old, new) for a one-character old; new = <<>> deletes
replace(s, old, new) ==
    IF s = <<>> THEN <<>>
    ELSE (IF Head(s) = old THEN new ELSE <<Head(s)>>) \o replace(Tail(s), old, new)

RECURSIVE split(_, _)
\* s.split(sep): the list of the pieces between the separators
split(s, sep) ==
    IF \A i \in 1..Len(s) : s[i] # sep THEN <<s>>
    ELSE LET i == CHOOSE j \in 1..Len(s) :
                     s[j] = sep /\ \A k \in 1..(j-1) : s[k] # sep
         IN  <<SubSeq(s, 1, i-1)>> \o split(SubSeq(s, i+1, Len(s)), sep)

\* the literal addresses of the source
DefaultGroup == Str("224.1.1.1")
ControlAddress == Str("10.0.0.120")
OtherGroup == Str("239.0.0.1")

(***************************************************************************)
(* khanda_structs.py                                                       *)
(***************************************************************************)
khanda_message(type, payload, recipient, timestamp) ==
    [type |-> type, payload |-> payload, recipient |-> recipient,
     timestamp |-> timestamp]

khanda_TxWrapper(recipient, JSONMSG) == [recipient |-> recipient, data |-> JSONMSG]

\* the attributes an object has: reading any other raises AttributeError
hasattr(obj, name) == name \in DOMAIN obj

\* tokens of a raw frame
Tok(t, k, v) == [t |-> t, k |-> k, v |-> v]
LBrace == Tok("{", "", <<>>)
RBrace == Tok("}", "", <<>>)
\* "key": "value" with double quotes, 'key': 'value' with single quotes
Pair(k, v) == Tok("pair", k, v)
SPair(k, v) == Tok("spair", k, v)
\* a control character between tokens; c is TAB, CR, LF or NUL
Ctl(c) == Tok("ctl", c, <<>>)
\* bytes that are no JSON at all, and a JSON number
Junk == Tok("junk", "", <<>>)
Num == Tok("num", "", <<>>)

MsgKeys == <<"type", "payload", "recipient", "timestamp">>

\* khanda_message.__json__
json(self) == [k \in {MsgKeys[i] : i \in 1..4} |-> self[k]]

\* what the encoder writes for one character of a string: a double quote,
\* a backslash and the control characters are written as escapes
EscapeOf(c) ==
    CASE c = "\"" -> <<"\\", "\"">>
      [] c = "\\" -> <<"\\", "\\">>
      [] c = "LF" -> <<"\\", "n">>
      [] c = "CR" -> <<"\\", "r">>
      [] c = "TAB" -> <<"\\", "t">>
      [] c = "NUL" -> <<"\\", "u0000">>
      [] OTHER -> <<c>>

\* an encoder that writes every character as it is
encode_basestring_Mut(s) == s

RECURSIVE encode_basestring(_)
\* the text json.dumps writes between the quotes of a string
encode_basestring(s) ==
    IF s = <<>> THEN <<>> ELSE EscapeOf(Head(s)) \o encode_basestring(Tail(s))

\* json.dumps(obj, cls=JSONEncoder): JSONEncoder.default calls __json__
dumps(obj) ==
    LET d == json(obj)
    IN  <<LBrace>>
        \o [i \in 1..4 |-> Pair(MsgKeys[i], encode_basestring(d[MsgKeys[i]]))]
        \o <<RBrace>>

\* the keys of a sequence of pair tokens
KeysOf(pairs) == {pairs[i].k : i \in 1..Len(pairs)}

\* the dict a sequence of pair tokens denotes: a repeated key keeps its last value
DictOf(pairs) ==
    [k \in KeysOf(pairs) |->
        pairs[CHOOSE i \in 1..Len(pairs) :
                 pairs[i].k = k /\ \A j \in (i+1)..Len(pairs) : pairs[j].k # k].v]

\* a decoder that fills a missing key with the empty string
KhandaMSGDecoder_Mut(obj) ==
    [ok |-> TRUE,
     val |-> [k \in {MsgKeys[i] : i \in 1..4} |->
                 IF k \in DOMAIN obj THEN obj[k] ELSE <<>>]]

\* KhandaMSGDecoder: KeyError when one of the four keys is missing
KhandaMSGDecoder(obj) ==
    IF \A i \in 1..4 : MsgKeys[i] \in DOMAIN obj
    THEN [ok |-> TRUE,
          val |-> khanda_message(obj["type"], obj["payload"],
                                 obj["recipient"], obj["timestamp"])]
    ELSE [ok |-> FALSE, val |-> <<>>]

\* the character an escape stands for
Unescaped(c) ==
    CASE c = "n" -> "LF" [] c = "r" -> "CR" [] c = "t" -> "TAB"
      [] c = "u0000" -> "NUL" [] c = "b" -> "BS" [] c = "f" -> "FF"
      [] OTHER -> c

EscapeChars == {"\"", "\\", "/", "n", "r", "t", "b", "f", "u0000"}

RECURSIVE ValidValue(_)
\* the text between the quotes of a JSON string: no bare double quote, and
\* every backslash begins an escape; strict=False lets control characters in
ValidValue(v) ==
    IF v = <<>> THEN TRUE
    ELSE IF Head(v) = "\\"
         THEN /\ Len(v) >= 2
              /\ v[2] \in EscapeChars
              /\ ValidValue(SubSeq(v, 3, Len(v)))
         ELSE Head(v) # "\"" /\ ValidValue(Tail(v))

RECURSIVE scanstring(_)
\* the string a valid text between quotes denotes
scanstring(v) ==
    IF v = <<>> THEN <<>>
    ELSE IF Head(v) = "\\"
         THEN <<Unescaped(v[2])>> \o scanstring(SubSeq(v, 3, Len(v)))
         ELSE <<Head(v)>> \o scanstring(Tail(v))

\* tokens json.loads skips between the tokens of a document: JSON whitespace
IsSpace(tok) == tok.t = "ctl" /\ tok.k \in {"TAB", "CR", "LF"}

\* json.loads(raw, object_hook=KhandaMSGDecoder, strict=False).
\* ok = FALSE: json.loads or the hook raised; isMsg = FALSE: a value that is
\* not an object was returned, and the hook did not run.
loads(raw) ==
    LET s == SelectSeq(raw, LAMBDA tok : ~IsSpace(tok))
        n == Len(s)
    IN  IF n = 1 /\ s[1] = Num
        THEN [ok |-> TRUE, isMsg |-> FALSE, val |-> <<>>]
        ELSE IF /\ n >= 2
                /\ s[1] = LBrace
                /\ s[n] = RBrace
                /\ \A i \in 2..(n-1) : s[i].t = "pair" /\ ValidValue(s[i].v)
             THEN LET pairs == [i \in 1..(n-2) |->
                                   Pair(s[i+1].k, scanstring(s[i+1].v))]
                      r == KhandaMSGDecoder(DictOf(pairs))
                  IN  [ok |-> r.ok, isMsg |-> r.ok, val |-> r.val]
             ELSE [ok |-> FALSE, isMsg |-> FALSE, val |-> <<>>]

(***************************************************************************)
(* The inputs of the model: messages, datagrams and serial lines.          *)
(***************************************************************************)
LedTokens == {"RED", "REDOFF", "GREEN", "GREENOFF", "BLUE", "BLUEOFF"}

\* the colour a token stands for (lines 349, 352, 355)
LedColor(tok) ==
    IF tok \in {"RED", "REDOFF"} THEN "RED"
    ELSE IF tok \in {"GREEN", "GREENOFF"} THEN "GREEN" ELSE "BLUE"

DeviceAddr == "10.0.0.5"

Msg(type, payload, recipient) == khanda_message(Str(type), payload, recipient, Str("1"))

SampleMsg == Msg("EVENT", Str("E1"), DefaultGroup)

\* frames that do not decode to a message
Malformed ==
    { \* truncated: the closing brace is cut off
      SubSeq(dumps(SampleMsg), 1, 5),
      \* a field is missing
      <<LBrace, Pair("type", Str("EVENT")), Pair("payload", Str("E1")),
        Pair("recipient", DefaultGroup), RBrace>>,
      \* not JSON, and a JSON value that is no object
      <<Junk>>, <<Num>>,
      \* invalid encoding: a bare double quote inside a string
      <<LBrace, Pair("type", <<"EV", "\"", "ENT">>), Pair("payload", Str("E1")),
        Pair("recipient", DefaultGroup), Pair("timestamp", Str("1")), RBrace>> }

\* a frame with control characters between and inside its tokens
Noisy(m) ==
    <<LBrace, Ctl("NUL"), Pair("type", m.type), Ctl("TAB"),
      Pair("payload", m.payload \o <<"CR">>), Pair("recipient", m.recipient),
      Pair("timestamp", m.timestamp), RBrace, Ctl("CR"), Ctl("LF")>>

\* the same document written with single quotes, as serial devices do
SingleQuoted(raw) ==
    [i \in 1..Len(raw) |->
        IF raw[i].t = "pair" THEN SPair(raw[i].k, raw[i].v) ELSE raw[i]]

\* A run is one deployment: the group the server is constructed with, the
\* CMDParser the application has (if any), whether it attaches serial
\* devices, and the frames its devices send.
Scenarios == {"red", "green", "blue", "kinds", "device", "framing", "serial",
              "injected", "connect", "psu", "command"}

ScenarioHost(sc) == IF sc \in {"framing"} THEN OtherGroup ELSE DefaultGroup

ScenarioParsers(sc) == IF sc = "injected" THEN {"parser"} ELSE {"None"}

ScenarioSerial(sc) == sc = "serial"

\* datagrams that arrive on the UDP socket
UDPFrames(sc) ==
    CASE sc = "red" ->
           {dumps(Msg("LED", Str(tok), DefaultGroup)) : tok \in {"RED", "REDOFF", "PURPLE"}}
      [] sc = "green" ->
           {dumps(Msg("LED", Str(tok), DefaultGroup)) : tok \in {"GREEN", "GREENOFF"}}
      [] sc = "blue" ->
           {dumps(Msg("LED", Str(tok), DefaultGroup)) : tok \in {"BLUE", "BLUEOFF"}}
      [] sc = "kinds" ->
           {dumps(Msg("EVENT", Str("E1"), DefaultGroup)),
            dumps(Msg("HEALTH", Str("UNHEALTHY"), DefaultGroup)),
            dumps(Msg("PING", Str("x"), DefaultGroup)),
            dumps(Msg("LED", Str("GREEN"), DefaultGroup))}
      [] sc = "device" ->
           {dumps(Msg("DEVICE", <<"SENSOR", "+", DeviceAddr>>, DefaultGroup)),
            dumps(Msg("DEVICE", <<"RELAY", "+", DeviceAddr>>, DefaultGroup)),
            dumps(Msg("DEVICE", <<"SENSOR">>, DefaultGroup)),
            dumps(Msg("DEVICE", <<"A", "+", "B", "+", "C">>, DefaultGroup)),
            dumps(Msg("EVENT", Str("E1"), DefaultGroup))}
      [] sc = "framing" ->
           Malformed \cup {Noisy(SampleMsg), dumps(SampleMsg),
                           dumps(Msg("EVENT", Str("E1"), OtherGroup))}
      [] sc = "serial" ->
           {dumps(SampleMsg)}
      [] sc = "injected" ->
           {dumps(SampleMsg), dumps(Msg("LED", Str("RED"), DefaultGroup))}
      [] sc = "connect" ->
           {dumps(SampleMsg)}
      [] sc \in {"psu", "command"} ->
           {}

\* the deployment calls connect() itself; in the others the run begins when
\* connect() has bound the socket and joined the group
ScenarioConnects(sc) == sc = "connect"

\* the deployment attaches a power supply
ScenarioPSU(sc) == sc = "psu"

\* the payloads the application passes to QueueCommand
Commands(sc) ==
    IF sc = "command" THEN {Str("RESET"), <<"LED", "+", "RED">>} ELSE {}

\* the strings of at most n characters over an alphabet
RECURSIVE Strings(_, _)
Strings(alphabet, n) ==
    IF n = 0 THEN {<<>>}
    ELSE LET shorter == Strings(alphabet, n - 1)
         IN  shorter \cup {<<c>> \o t : c \in alphabet, t \in shorter}

\* printable characters: a letter, the letter of an escape, the double
\* quote, the backslash, the apostrophe
Printable == {"a", "n", "\"", "\\", "'"}

\* the messages given to the encoder
Messages ==
    {khanda_message(type, payload, recipient, timestamp) :
        type \in {Str("EVENT"), <<"\\", "\"">>},
        payload \in Strings(Printable, MaxLen),
        recipient \in {DefaultGroup, <<"\"", "a", "\"">>},
        timestamp \in {Str("1"), <<"\\", "n">>, <<>>}}

\* lines that arrive on a serial port
SerialLines ==
    {SingleQuoted(dumps(SampleMsg)) \o <<Ctl("CR"), Ctl("LF")>>, <<Junk, Ctl("LF")>>}

\* bytes a serial line occupies in the input buffer
LineSizes == {64, 128}

(***************************************************************************)
(* The stripping both ingress workers apply before decoding.               *)
(***************************************************************************)
\* raw.replace(c, new) on a frame: on the characters between the tokens and
\* on the characters inside the keys' values
replaceRaw(raw, c, new) ==
    LET drop(tok) == tok.t = "ctl" /\ tok.k = c /\ new = <<>>
        kept == SelectSeq(raw, LAMBDA tok : ~drop(tok))
    IN  [i \in 1..Len(kept) |->
            IF kept[i].t \in {"pair", "spair"}
            THEN Tok(kept[i].t, kept[i].k, replace(kept[i].v, c, new))
            ELSE kept[i]]

\* lines 291-294 and 258-261: tab, CR, LF and NUL are removed
StripControl(raw) ==
    replaceRaw(replaceRaw(replaceRaw(replaceRaw(raw, "TAB", <<>>),
                                     "CR", <<>>), "LF", <<>>), "NUL", <<>>)

\* line 262: raw.replace('\'', '\"')
NormalizeQuotes(raw) ==
    [i \in 1..Len(raw) |->
        IF raw[i].t \in {"pair", "spair"}
        THEN Pair(raw[i].k, replace(raw[i].v, "'", <<"\"">>))
        ELSE raw[i]]

\* the recipient a packet must carry to be put on the RxQueue (lines 267, 298)
AcceptedRecipient == DefaultGroup

\* lines 296-303 and 265-272: "put", "discard" (not for us) or "invalid"
Ingest(text) ==
    LET r == loads(text)
    IN  IF ~r.ok THEN [what |-> "invalid", msg |-> SampleMsg]
        ELSE IF ~r.isMsg THEN [what |-> "invalid", msg |-> SampleMsg]
        ELSE IF r.val.recipient = AcceptedRecipient
             THEN [what |-> "put", msg |-> r.val]
             ELSE [what |-> "discard", msg |-> r.val]

(***************************************************************************)
(* The state of a khandaServer object and of its worker threads.           *)
(***************************************************************************)
VARIABLES
    scenario,          \* the deployment of the run
    host,              \* self.host
    sock,              \* self.sock: "open" or "closed"
    serialPorts,       \* self.serialPorts: list of [open, buf]
    threads,           \* self.threads: list of indices into workers
    workers,           \* the threads that run a worker function
    RxQueue,           \* self.RxQueue
    TxQueue,           \* self.TxQueue
    rxUnfinished,      \* RxQueue.unfinished_tasks
    txUnfinished,      \* TxQueue.unfinished_tasks
    Attached_Devices,  \* self.Attached_Devices
    logfile,           \* the contents of logfile.txt
    stderr,            \* the kinds of diagnostics written to sys.stderr
    dispatched,        \* the packets taken from the RxQueue, in order
    rxTrace,           \* the frames the ingress workers read and what they did
                       \* with each, in order
    parserFailed,      \* the injected CMDParser has raised
    nops,              \* calls of the server's methods
    nstops,            \* calls of stopWorkers that have returned
    joined,            \* self.sock is bound to the port and has joined the group
    returned,          \* what the last call of connect, attach_PSU, detach_PSU
                       \* or QueueCommand returned
    PSU_PORT,          \* self.PSU_PORT: "None", or a port "open" or "closed"
    PSU_DEV,           \* self.PSU_DEV: "None" or "PSU_Device"
    sent,              \* the datagrams sent, [to, data], and the data written
                       \* to the serial ports, [port, data], in order
    message,           \* a message given to the encoder
    document,          \* what json.dumps returned for it; <<>> before
    decoded            \* <<what json.loads returned for the document>>; <<>> before

vars == <<scenario, host, sock, serialPorts, threads, workers, RxQueue, TxQueue,
          rxUnfinished, txUnfinished, Attached_Devices, logfile, stderr,
          dispatched, rxTrace, parserFailed, nops, nstops, joined, returned,
          PSU_PORT, PSU_DEV, sent, message, document, decoded>>

\* the local khanda_resp_wrapper of CMDWorker before its first assignment
NoWrapper == khanda_TxWrapper(<<>>, <<>>)

\* a thread running `target`; args is "()" (no argument), "tuple" (the
\* parser passed properly) or "bare" (args=(CMDParser), line 178); reading is
\* the serial port whose readline() the thread is in, or 0
Worker(target, args, st) ==
    [target |-> target, args |-> args, st |-> st,
     bound |-> FALSE, wrapper |-> NoWrapper, reading |-> 0]

\* threading.Thread.run calls target(*args): a bare function is no argument
\* list, the call raises TypeError and the thread ends before the target runs
ThreadRun(args) == IF args = "bare" THEN "dead" ELSE "running"

\* khandaServer.__init__ (lines 58-78), called without a sock: the server
\* creates its own socket; MCAST_GRP is left out or passed
Constructed ==
    /\ host = ScenarioHost(scenario)
    /\ joined = ~ScenarioConnects(scenario)
    /\ returned = "None"
    /\ PSU_PORT = "None"
    /\ PSU_DEV = "None"
    /\ sent = <<>>
    /\ sock = "open"
    /\ serialPorts = <<>>
    /\ threads = <<>>
    /\ workers = <<>>
    /\ RxQueue = <<>>
    /\ TxQueue = <<>>
    /\ rxUnfinished = 0
    /\ txUnfinished = 0
    /\ Attached_Devices = <<>>
    /\ logfile = <<>>
    /\ stderr = {}
    /\ dispatched = <<>>
    /\ rxTrace = <<>>
    /\ parserFailed = FALSE
    /\ nops = 0
    /\ nstops = 0

Init ==
    /\ scenario \in Scenarios
    /\ Constructed
    /\ message = SampleMsg
    /\ document = <<>>
    /\ decoded = <<>>

\* str(time.time())
Now == Str("now")

Running(w, target) ==
    /\ w \in 1..Len(workers)
    /\ workers[w].target = target
    /\ workers[w].st = "running"

\* an uncaught exception ends the thread; threading prints the traceback
Die(w) == [workers EXCEPT ![w].st = "dead"]

(***************************************************************************)
(* serial_start (lines 134-138)                                            *)
(***************************************************************************)
serial_start(opened) ==
    /\ nops < MaxOps
    /\ nops' = nops + 1
    /\ ScenarioSerial(scenario)
    /\ IF opened
       THEN /\ serialPorts' = Append(serialPorts, [open |-> TRUE, buf |-> <<>>])
            /\ UNCHANGED stderr
       ELSE /\ stderr' = stderr \cup {"Invalid Serial port parameters"}
            /\ UNCHANGED serialPorts
    /\ UNCHANGED <<joined, returned, PSU_PORT, PSU_DEV, sent, message, document, decoded>>
    /\ UNCHANGED <<scenario, host, sock, threads, workers, RxQueue, TxQueue, rxUnfinished,
                   txUnfinished, Attached_Devices, logfile, dispatched, rxTrace,
                   parserFailed, nstops>>

(***************************************************************************)
(* connect (lines 149-154)                                                 *)
(***************************************************************************)
\* ok: bind and the group join both succeed; a socket that is bound already
\* cannot be bound again.  The except clause writes to stderr and the method
\* returns None either way.
connect(ok) ==
    /\ nops < MaxOps
    /\ nops' = nops + 1
    /\ ScenarioConnects(scenario)
    /\ IF ok /\ ~joined
       THEN /\ joined' = TRUE
            /\ UNCHANGED stderr
       ELSE /\ stderr' = stderr \cup {"Error Binding Socket!"}
            /\ UNCHANGED joined
    /\ returned' = "None"
    /\ UNCHANGED <<PSU_PORT, PSU_DEV, sent, message, document, decoded>>
    /\ UNCHANGED <<scenario, host, sock, serialPorts, threads, workers, RxQueue, TxQueue,
                   rxUnfinished, txUnfinished, Attached_Devices, logfile,
                   dispatched, rxTrace, parserFailed, nstops>>

(***************************************************************************)
(* attach_PSU (lines 92-98) and detach_PSU (lines 112-122)                 *)
(***************************************************************************)
\* opened: serial.Serial(SERIAL_PORT, 9600, timeout=1) returns a port
attach_PSU(opened) ==
    /\ nops < MaxOps
    /\ nops' = nops + 1
    /\ ScenarioPSU(scenario)
    /\ IF opened
       THEN /\ PSU_PORT' = "open"
            /\ PSU_DEV' = "PSU_Device"
            /\ returned' = "0"
            /\ UNCHANGED stderr
       ELSE /\ stderr' = stderr \cup {"Error Opening PSU Port!"}
            /\ returned' = "-1"
            /\ UNCHANGED <<PSU_PORT, PSU_DEV>>
    /\ UNCHANGED <<joined, sent, message, document, decoded>>
    /\ UNCHANGED <<scenario, host, sock, serialPorts, threads, workers, RxQueue, TxQueue,
                   rxUnfinished, txUnfinished, Attached_Devices, logfile,
                   dispatched, rxTrace, parserFailed, nstops>>

\* closeFails: self.PSU_PORT.close() raises.  self.PSU_PORT keeps the port
\* object after the close: only self.PSU_DEV is reset (line 118).
detach_PSU(closeFails) ==
    /\ nops < MaxOps
    /\ nops' = nops + 1
    /\ ScenarioPSU(scenario)
    /\ IF PSU_PORT = "None"
       THEN /\ stderr' = stderr \cup {"No PSU Attached!"}
            /\ returned' = "-1"
            /\ UNCHANGED <<PSU_PORT, PSU_DEV>>
       ELSE IF ~closeFails
            THEN /\ PSU_PORT' = "closed"
                 /\ PSU_DEV' = "None"
                 /\ returned' = "0"
                 /\ UNCHANGED stderr
            ELSE /\ stderr' = stderr \cup {"Error Closing PSU Port!"}
                 /\ returned' = "-2"
                 /\ UNCHANGED <<PSU_PORT, PSU_DEV>>
    /\ UNCHANGED <<joined, sent, message, document, decoded>>
    /\ UNCHANGED <<scenario, host, sock, serialPorts, threads, workers, RxQueue, TxQueue,
                   rxUnfinished, txUnfinished, Attached_Devices, logfile,
                   dispatched, rxTrace, parserFailed, nstops>>

(***************************************************************************)
(* QueueCommand (lines 234-241)                                            *)
(***************************************************************************)
\* the names line 236 can read: the parameters, the local of line 235 and
\* the names the module imports or defines
QueueCommandNames ==
    {"self", "CMD", "newCommand", "khanda_message", "khanda_TxWrapper", "json",
     "JSONEncoder"}

\* Line 236 serializes khanda_Resp, not newCommand.  Reading a name that is
\* not defined raises NameError, inside the try: the except clause reports
\* the failure and nothing is put on the TxQueue.
QueueCommand(CMD) ==
    /\ nops < MaxOps
    /\ nops' = nops + 1
    /\ CMD \in Commands(scenario)
    /\ LET newCommand == khanda_message(Str("CMD"), CMD, DefaultGroup, Str("1"))
           newCommand_wrapper == khanda_TxWrapper(DefaultGroup, dumps(newCommand))
       IN  IF "khanda_Resp" \in QueueCommandNames
           THEN /\ TxQueue' = Append(TxQueue, newCommand_wrapper)
                /\ txUnfinished' = txUnfinished + 1
                /\ returned' = "0"
                /\ UNCHANGED stderr
           ELSE /\ stderr' = stderr \cup {"Unable to Process Command"}
                /\ returned' = "-1"
                /\ UNCHANGED <<TxQueue, txUnfinished>>
    /\ UNCHANGED <<joined, PSU_PORT, PSU_DEV, sent, message, document, decoded>>
    /\ UNCHANGED <<scenario, host, sock, serialPorts, threads, workers, RxQueue,
                   rxUnfinished, Attached_Devices, logfile, dispatched, rxTrace,
                   parserFailed, nstops>>

(***************************************************************************)
(* startWorkers (lines 166-188)                                            *)
(***************************************************************************)
\* the threads one call creates, in order
StartedWorkers(CMDParser) ==
    <<Worker("RxWorker", "()", ThreadRun("()")),
      Worker("TxWorker", "()", ThreadRun("()")),
      IF CMDParser = "None"
      THEN Worker("CMDWorker", "()", ThreadRun("()"))
      ELSE Worker("CMDWorker", "bare", ThreadRun("bare"))>>
    \o (IF Len(serialPorts) > 0
        THEN <<Worker("SerialRxWorker", "()", ThreadRun("()"))>>
        ELSE <<>>)

startWorkers(CMDParser) ==
    /\ nops < MaxOps
    /\ nops' = nops + 1
    /\ CMDParser \in ScenarioParsers(scenario)
    /\ LET new == StartedWorkers(CMDParser)
       IN  /\ workers' = workers \o new
           /\ threads' = threads \o [i \in 1..Len(new) |-> Len(workers) + i]
           /\ stderr' = IF \E i \in 1..Len(new) : new[i].st = "dead"
                        THEN stderr \cup {"Exception in thread"} ELSE stderr
    /\ UNCHANGED <<joined, returned, PSU_PORT, PSU_DEV, sent, message, document, decoded>>
    /\ UNCHANGED <<scenario, host, sock, serialPorts, RxQueue, TxQueue, rxUnfinished,
                   txUnfinished, Attached_Devices, logfile, dispatched, rxTrace,
                   parserFailed, nstops>>

\* CMDWorker(CMDParser) called as a method, in a thread of the caller
CallCMDWorker ==
    /\ nops < MaxOps
    /\ nops' = nops + 1
    /\ "parser" \in ScenarioParsers(scenario)
    /\ workers' = Append(workers, Worker("CMDWorker", "tuple", ThreadRun("tuple")))
    /\ UNCHANGED <<joined, returned, PSU_PORT, PSU_DEV, sent, message, document, decoded>>
    /\ UNCHANGED <<scenario, host, sock, serialPorts, threads, RxQueue, TxQueue,
                   rxUnfinished, txUnfinished, Attached_Devices, logfile, stderr,
                   dispatched, rxTrace, parserFailed, nstops>>

(***************************************************************************)
(* stopWorkers (lines 201-211)                                             *)
(***************************************************************************)
\* stopWorkers with a worker.stop() that returns without effect: the ports
\* are closed under the threads
stopWorkers_Mut ==
    /\ nops < MaxOps
    /\ nops' = nops + 1
    /\ nstops' = nstops + 1
    /\ serialPorts' = [i \in 1..Len(serialPorts) |->
                          [serialPorts[i] EXCEPT !.open = FALSE]]
    /\ stderr' = stderr \cup {"Unable to close logfile!"}
    /\ UNCHANGED <<joined, returned, PSU_PORT, PSU_DEV, sent, message, document, decoded>>
    /\ UNCHANGED <<scenario, host, sock, threads, workers, RxQueue, TxQueue, rxUnfinished,
                   txUnfinished, Attached_Devices, logfile, dispatched, rxTrace,
                   parserFailed>>

\* a threading.Thread has no stop(): with a thread in the list the first
\* worker.stop() raises AttributeError and the ports are not reached
stopWorkers ==
    /\ nops < MaxOps
    /\ nops' = nops + 1
    /\ nstops' = nstops + 1
    /\ IF Len(threads) > 0
       THEN /\ stderr' = stderr \cup {"Unable to stop working threads!",
                                      "Unable to close logfile!"}
            /\ UNCHANGED serialPorts
       ELSE /\ serialPorts' = [i \in 1..Len(serialPorts) |->
                                  [serialPorts[i] EXCEPT !.open = FALSE]]
            \* self.logfile was never assigned: AttributeError, caught
            /\ stderr' = stderr \cup {"Unable to close logfile!"}
    /\ UNCHANGED <<joined, returned, PSU_PORT, PSU_DEV, sent, message, document, decoded>>
    /\ UNCHANGED <<scenario, host, sock, threads, workers, RxQueue, TxQueue, rxUnfinished,
                   txUnfinished, Attached_Devices, logfile, dispatched, rxTrace,
                   parserFailed>>

(***************************************************************************)
(* RxWorker (lines 285-304)                                                *)
(***************************************************************************)
\* frames that have arrived so far
RECURSIVE Buffered(_)
Buffered(ports) ==
    IF ports = <<>> THEN 0 ELSE Len(Head(ports).buf) + Buffered(Tail(ports))

Arrived == Len(rxTrace) + Buffered(serialPorts)

\* one pass of the loop with a datagram to read
RxWorker(w, raw) ==
    /\ Running(w, "RxWorker")
    \* a datagram reaches a socket that is bound and has joined the group
    /\ joined
    /\ Arrived < MaxFrames
    /\ raw \in UDPFrames(scenario)
    /\ LET r == Ingest(StripControl(raw))
       IN  /\ rxTrace' = Append(rxTrace,
                                [src |-> "udp", what |-> r.what, raw |-> raw])
           /\ RxQueue' = IF r.what = "put" THEN Append(RxQueue, r.msg)
                         ELSE RxQueue
           /\ rxUnfinished' = IF r.what = "put" THEN rxUnfinished + 1
                              ELSE rxUnfinished
           /\ stderr' = IF r.what = "invalid"
                        THEN stderr \cup {"Invalid Packet Structure"}
                        ELSE stderr
    /\ UNCHANGED <<joined, returned, PSU_PORT, PSU_DEV, sent, message, document, decoded>>
    /\ UNCHANGED <<scenario, host, sock, serialPorts, threads, workers, TxQueue, txUnfinished,
                   Attached_Devices, logfile, dispatched, parserFailed, nops, nstops>>

(***************************************************************************)
(* SerialRxWorker (lines 252-274)                                          *)
(***************************************************************************)
\* a device writes a line of n bytes to serial port p
SerialArrive(p, line, n) ==
    /\ p \in 1..Len(serialPorts)
    /\ serialPorts[p].open
    /\ Arrived < MaxFrames
    /\ serialPorts' = [serialPorts EXCEPT
                          ![p].buf = Append(@, [raw |-> line, n |-> n])]
    /\ UNCHANGED <<joined, returned, PSU_PORT, PSU_DEV, sent, message, document, decoded>>
    /\ UNCHANGED <<scenario, host, sock, threads, workers, RxQueue, TxQueue, rxUnfinished,
                   txUnfinished, Attached_Devices, logfile, stderr, dispatched,
                   rxTrace, parserFailed, nops, nstops>>

RECURSIVE SumBytes(_)
SumBytes(buf) == IF buf = <<>> THEN 0 ELSE Head(buf).n + SumBytes(Tail(buf))

\* port.in_waiting
in_waiting(port) == SumBytes(port.buf)

\* the bytes that must be buffered before a line is read (line 254)
SerialThreshold == 128

\* lines 253-254: the worker looks at port p and, with a line waiting,
\* enters the try and calls port.readline()
SerialPoll(w, p) ==
    /\ Running(w, "SerialRxWorker")
    /\ workers[w].reading = 0
    /\ p \in 1..Len(serialPorts)
    /\ IF ~serialPorts[p].open
       THEN \* port.in_waiting of a closed port raises, outside the try
            /\ workers' = Die(w)
            /\ stderr' = stderr \cup {"Exception in thread"}
       ELSE /\ in_waiting(serialPorts[p]) >= SerialThreshold
            /\ workers' = [workers EXCEPT ![w].reading = p]
            /\ UNCHANGED stderr
    /\ UNCHANGED <<joined, returned, PSU_PORT, PSU_DEV, sent, message, document, decoded>>
    /\ UNCHANGED <<scenario, host, sock, serialPorts, threads, RxQueue, TxQueue,
                   rxUnfinished, txUnfinished, Attached_Devices, logfile,
                   dispatched, rxTrace, parserFailed, nops, nstops>>

\* lines 256-274: readline() on port p returns or raises (readFails; on a
\* port closed in the meantime it raises), and the line read is handled
SerialRxWorker(w, p, readFails) ==
    /\ Running(w, "SerialRxWorker")
    /\ p \in 1..Len(serialPorts)
    /\ workers[w].reading = p
    /\ IF readFails \/ ~serialPorts[p].open
       THEN \* line 273: except: return
            /\ workers' = [workers EXCEPT ![w].st = "exited", ![w].reading = 0]
            /\ UNCHANGED <<serialPorts, RxQueue, rxUnfinished, rxTrace, stderr>>
       ELSE IF serialPorts[p].buf = <<>>
       THEN \* another thread took the line: readline() returns '' at the
            \* timeout, which json.loads rejects
            /\ stderr' = stderr \cup {"Invalid Packet Structure"}
            /\ workers' = [workers EXCEPT ![w].reading = 0]
            /\ UNCHANGED <<serialPorts, RxQueue, rxUnfinished, rxTrace>>
       ELSE LET raw == Head(serialPorts[p].buf).raw
                r == Ingest(NormalizeQuotes(StripControl(raw)))
            IN  /\ serialPorts' = [serialPorts EXCEPT ![p].buf = Tail(@)]
                /\ rxTrace' = Append(rxTrace,
                        [src |-> "serial", what |-> r.what, raw |-> raw])
                /\ RxQueue' = IF r.what = "put" THEN Append(RxQueue, r.msg)
                              ELSE RxQueue
                /\ rxUnfinished' = IF r.what = "put" THEN rxUnfinished + 1
                                   ELSE rxUnfinished
                /\ stderr' = IF r.what = "invalid"
                             THEN stderr \cup {"Invalid Packet Structure"}
                             ELSE stderr
                /\ workers' = [workers EXCEPT ![w].reading = 0]
    /\ UNCHANGED <<joined, returned, PSU_PORT, PSU_DEV, sent, message, document, decoded>>
    /\ UNCHANGED <<scenario, host, sock, threads, TxQueue, txUnfinished, Attached_Devices,
                   logfile, dispatched, parserFailed, nops, nstops>>

(***************************************************************************)
(* TxWorker (lines 315-326)                                                *)
(***************************************************************************)
\* self.port when MCAST_PORT is left out (line 69)
port == 5007

\* line 321: the datagram sendto() sends for an envelope
Datagram(Txpacket) == [to |-> <<Txpacket.recipient, port>>, data |-> Txpacket.data]

\* line 323: what port.write() writes to serial port p for an envelope
SerialWrite(Txpacket, p) == [to |-> <<Str("serial"), p>>, data |-> Txpacket.data]

\* With the queue empty the `and` of line 318 stops at its first operand and
\* the loop continues.  With an envelope queued, len(writeable_socket) reads
\* a local that is assigned only by the for of line 320: UnboundLocalError,
\* uncaught, before TxQueue.get() and before anything is sent: lines 319-324
\* are never run, `sent` stays as it is.
TxWorker(w) ==
    /\ Running(w, "TxWorker")
    /\ TxQueue # <<>>
    /\ workers' = Die(w)
    /\ stderr' = stderr \cup {"Exception in thread"}
    /\ UNCHANGED <<joined, returned, PSU_PORT, PSU_DEV, sent, message, document, decoded>>
    /\ UNCHANGED <<scenario, host, sock, serialPorts, threads, RxQueue, TxQueue,
                   rxUnfinished, txUnfinished, Attached_Devices, logfile,
                   dispatched, rxTrace, parserFailed, nops, nstops>>

(***************************************************************************)
(* CMDWorker, built-in rules (lines 338-378)                               *)
(***************************************************************************)
\* line 345 / 360: str(type) + "," + str(payload) + "," + str(timestamp) + "\r\n"
FileWrite_Buff(RxPacket) ==
    RxPacket.type \o <<",">> \o RxPacket.payload \o <<",">>
        \o RxPacket.timestamp \o <<"\r\n">>

\* the command addressed to the group instead of the control address
LedWrapper_Mut(color) ==
    khanda_TxWrapper(DefaultGroup,
        dumps(khanda_message(Str("CMD"), <<"LED", "+", color>>, DefaultGroup, Now)))

\* lines 350-351, 353-354, 356-357
LedWrapper(color) ==
    khanda_TxWrapper(ControlAddress,
        dumps(khanda_message(Str("CMD"), <<"LED", "+", color>>, DefaultGroup, Now)))

\* lines 349-357: the local khanda_resp_wrapper after the if/elif chain
LedResponse(payload, bound, wrapper) ==
    IF payload = Str("RED") \/ payload = Str("REDOFF")
    THEN [bound |-> TRUE, wrapper |-> LedWrapper("RED")]
    ELSE IF payload = Str("GREEN") \/ payload = Str("GREENOFF")
    THEN [bound |-> TRUE, wrapper |-> LedWrapper("GREEN")]
    ELSE IF payload = Str("BLUE") \/ payload = Str("BLUEOFF")
    THEN [bound |-> TRUE, wrapper |-> LedWrapper("BLUE")]
    ELSE [bound |-> bound, wrapper |-> wrapper]

\* lines 372-373
AckWrapper(IP) ==
    khanda_TxWrapper(IP, dumps(khanda_message(Str("ACKDEV"), Str("SUCCESS"), IP, Now)))

\* TxQueue.put(khanda_resp_wrapper) run for every kind of packet once the
\* local is assigned
DispatchTx_Mut(RxPacket, led, ledOk, devOk) ==
    IF led.bound THEN <<led.wrapper>>
    ELSE IF devOk THEN <<AckWrapper(split(RxPacket.data, "+")[2])>> ELSE <<>>

\* lines 358 and 374: the envelopes put on the TxQueue for one packet
DispatchTx(RxPacket, led, ledOk, devOk) ==
    IF ledOk THEN <<led.wrapper>>
    ELSE IF devOk THEN <<AckWrapper(split(RxPacket.data, "+")[2])>> ELSE <<>>

\* the effect of lines 341-375 on one packet, given the local
\* khanda_resp_wrapper left by the earlier passes of the loop
Dispatch(RxPacket, bound, wrapper) ==
    LET isEvent == RxPacket.type = Str("EVENT")
        isLed == RxPacket.type = Str("LED")
        isHealth == RxPacket.type = Str("HEALTH")
        isDevice == RxPacket.type = Str("DEVICE")
        led == LedResponse(RxPacket.payload, bound, wrapper)
        \* line 358 reads khanda_resp_wrapper: UnboundLocalError when unassigned
        ledRaises == isLed /\ ~led.bound
        \* line 367 reads RxPacket.data, and unpacks the split into two names
        devRaises == isDevice /\ (\/ ~hasattr(RxPacket, "data")
                                  \/ Len(split(RxPacket.data, "+")) # 2)
        ledOk == isLed /\ ~ledRaises
        devOk == isDevice /\ ~devRaises
        parts == split(RxPacket.data, "+")
    IN  [raised |-> ledRaises \/ devRaises,
         log |-> IF isEvent \/ ledOk THEN FileWrite_Buff(RxPacket) ELSE <<>>,
         tx |-> DispatchTx(RxPacket, led, ledOk, devOk),
         devices |-> IF devOk THEN <<<<parts[1], parts[2]>>>> ELSE <<>>,
         err |-> IF isHealth /\ RxPacket.payload = Str("UNHEALTHY")
                 THEN {"DEVICE ERROR RESTART"} ELSE {},
         bound |-> IF isLed THEN led.bound ELSE IF devOk THEN TRUE ELSE bound,
         wrapper |-> IF isLed THEN led.wrapper
                     ELSE IF devOk THEN AckWrapper(parts[2]) ELSE wrapper]

\* one pass of the loop of lines 338-378 with a packet in the queue
CMDWorker(w) ==
    /\ Running(w, "CMDWorker")
    /\ workers[w].args = "()"
    /\ RxQueue # <<>>
    /\ LET RxPacket == Head(RxQueue)
           d == Dispatch(RxPacket, workers[w].bound, workers[w].wrapper)
       IN  /\ RxQueue' = Tail(RxQueue)
           /\ dispatched' = Append(dispatched, RxPacket)
           /\ logfile' = logfile \o d.log
           /\ TxQueue' = TxQueue \o d.tx
           /\ txUnfinished' = txUnfinished + Len(d.tx)
           /\ Attached_Devices' = Attached_Devices \o d.devices
           /\ workers' = [workers EXCEPT
                             ![w].st = IF d.raised THEN "dead" ELSE @,
                             ![w].bound = d.bound,
                             ![w].wrapper = d.wrapper]
           /\ stderr' = stderr \cup d.err
                           \cup (IF d.raised THEN {"Exception in thread"} ELSE {})
           \* line 376 is not reached when a rule raised
           /\ rxUnfinished' = IF d.raised THEN rxUnfinished ELSE rxUnfinished - 1
    /\ UNCHANGED <<joined, returned, PSU_PORT, PSU_DEV, sent, message, document, decoded>>
    /\ UNCHANGED <<scenario, host, sock, serialPorts, threads, rxTrace, parserFailed,
                   nops, nstops>>

(***************************************************************************)
(* CMDWorker, injected CMDParser (lines 380-391)                           *)
(***************************************************************************)
\* what a call of the injected function can do
ParserOutcomes == {"raise", "None", "wrapper"}

\* the envelope the injected function of the model returns
ParserWrapper(RxPacket) == khanda_TxWrapper(ControlAddress, dumps(RxPacket))

CMDWorkerCustom(w, outcome) ==
    /\ Running(w, "CMDWorker")
    /\ workers[w].args = "tuple"
    /\ RxQueue # <<>>
    /\ LET RxPacket == Head(RxQueue)
       IN  /\ RxQueue' = Tail(RxQueue)
           /\ dispatched' = Append(dispatched, RxPacket)
           /\ CASE outcome = "raise" ->
                     \* line 390: the except is outside the while
                     /\ workers' = [workers EXCEPT ![w].st = "exited"]
                     /\ stderr' = stderr \cup {"Invalid Command Parser!"}
                     /\ parserFailed' = TRUE
                     /\ UNCHANGED <<TxQueue, txUnfinished, rxUnfinished>>
                [] outcome = "None" ->
                     \* line 386: continue skips task_done
                     /\ UNCHANGED <<workers, stderr, parserFailed, TxQueue,
                                    txUnfinished, rxUnfinished>>
                [] outcome = "wrapper" ->
                     /\ TxQueue' = Append(TxQueue, ParserWrapper(RxPacket))
                     /\ txUnfinished' = txUnfinished + 1
                     /\ rxUnfinished' = rxUnfinished - 1
                     /\ UNCHANGED <<workers, stderr, parserFailed>>
    /\ UNCHANGED <<joined, returned, PSU_PORT, PSU_DEV, sent, message, document, decoded>>
    /\ UNCHANGED <<scenario, host, sock, serialPorts, threads, Attached_Devices, logfile,
                   rxTrace, nops, nstops>>

(***************************************************************************)
(* The encoder and the decoder on their own.                               *)
(***************************************************************************)
server == <<scenario, host, sock, serialPorts, threads, workers, RxQueue, TxQueue,
            rxUnfinished, txUnfinished, Attached_Devices, logfile, stderr,
            dispatched, rxTrace, parserFailed, nops, nstops, joined, returned,
            PSU_PORT, PSU_DEV, sent>>

\* json.dumps(message, cls=JSONEncoder)
JSONEncoder ==
    /\ document = <<>>
    /\ document' = dumps(message)
    /\ UNCHANGED <<server, message, decoded>>

\* json.loads(document, object_hook=KhandaMSGDecoder, strict=False)
JSONDecoder ==
    /\ document # <<>>
    /\ decoded = <<>>
    /\ decoded' = <<loads(document)>>
    /\ UNCHANGED <<server, message, document>>

\* a message of printable characters is encoded, and the document decoded
CodecInit ==
    /\ scenario = "codec"
    /\ Constructed
    /\ message \in Messages
    /\ document = <<>>
    /\ decoded = <<>>

CodecNext == JSONEncoder \/ JSONDecoder

CodecSpec == CodecInit /\ [][CodecNext]_vars

(***************************************************************************)
(* The specification.                                                      *)
(***************************************************************************)
Next ==
    \/ \E opened \in BOOLEAN : serial_start(opened)
    \/ \E ok \in BOOLEAN : connect(ok)
    \/ \E opened \in BOOLEAN : attach_PSU(opened)
    \/ \E closeFails \in BOOLEAN : detach_PSU(closeFails)
    \/ \E CMD \in Commands(scenario) : QueueCommand(CMD)
    \/ \E CMDParser \in {"None", "parser"} : startWorkers(CMDParser)
    \/ CallCMDWorker
    \/ stopWorkers
    \/ \E w \in 1..Len(workers), raw \in UDPFrames(scenario) : RxWorker(w, raw)
    \/ \E p \in 1..Len(serialPorts), line \in SerialLines, n \in LineSizes :
          SerialArrive(p, line, n)
    \/ \E w \in 1..Len(workers), p \in 1..Len(serialPorts) : SerialPoll(w, p)
    \/ \E w \in 1..Len(workers), p \in 1..Len(serialPorts), f \in BOOLEAN :
          SerialRxWorker(w, p, f)
    \/ \E w \in 1..Len(workers) : TxWorker(w)
    \/ \E w \in 1..Len(workers) : CMDWorker(w)
    \/ \E w \in 1..Len(workers), o \in ParserOutcomes : CMDWorkerCustom(w, o)

Spec == Init /\ [][Next]_vars

(***************************************************************************)
(* Properties.                                                             *)
(***************************************************************************)
Workers == 1..Len(workers)

\* a step in which a built-in CMDWorker handles the packet at the head of
\* the RxQueue
BuiltinDispatchStep ==
    /\ Len(dispatched') = Len(dispatched) + 1
    /\ \E w \in Workers : CMDWorker(w)

\* a step in which an ingress worker handles a frame
IngressStep == Len(rxTrace') = Len(rxTrace) + 1

\* a DEVICE payload of the form <deviceType>+<address>
WellFormedDevice(m) == m.type = Str("DEVICE") /\ Len(split(m.payload, "+")) = 2
DeviceType(m) == split(m.payload, "+")[1]
DeviceIP(m) == split(m.payload, "+")[2]

\* the entries of the device list for one address
EntriesFor(a) == {i \in 1..Len(Attached_Devices) : Attached_Devices[i][2] = a}

\* the well-formed DEVICE messages dispatched so far
Registered == {i \in 1..Len(dispatched) : WellFormedDevice(dispatched[i])}

\* C1: after the dispatch of DEVICE messages the device list holds exactly
\* one entry for each registered address, and it carries the deviceType of
\* the latest DEVICE message for that address (upsert, not accumulation).
C1_Claim ==
    \A i \in Registered :
        LET a == DeviceIP(dispatched[i])
            last == CHOOSE j \in Registered :
                        /\ DeviceIP(dispatched[j]) = a
                        /\ \A k \in Registered :
                              DeviceIP(dispatched[k]) = a => k <= j
        IN  /\ Cardinality(EntriesFor(a)) = 1
            /\ \A e \in EntriesFor(a) :
                  Attached_Devices[e][1] = DeviceType(dispatched[last])

\* C2: the dispatch of a well-formed DEVICE message "<deviceType>+<address>"
\* taken from the RxQueue leaves the entry (deviceType, address) in the
\* device list and puts exactly one envelope on the TxQueue, an
\* ACKDEV/SUCCESS message whose destination is that address.
C2_Claim ==
    [][(BuiltinDispatchStep /\ WellFormedDevice(Head(RxQueue))) =>
              LET m == Head(RxQueue)
              IN  /\ \E i \in 1..Len(Attached_Devices') :
                        Attached_Devices'[i] = <<DeviceType(m), DeviceIP(m)>>
                  /\ Len(TxQueue') = Len(TxQueue) + 1
                  /\ LET e == TxQueue'[Len(TxQueue')]
                     IN  /\ e.recipient = DeviceIP(m)
                         /\ loads(e.data).isMsg
                         /\ loads(e.data).val.type = Str("ACKDEV")
                         /\ loads(e.data).val.payload = Str("SUCCESS")
                         /\ loads(e.data).val.recipient = DeviceIP(m)]_vars

\* an LED packet whose payload is one of the six tokens
ValidLed(m) == m.type = Str("LED") /\ \E tok \in LedTokens : m.payload = Str(tok)
LedToken(m) == CHOOSE tok \in LedTokens : m.payload = Str(tok)

\* C3: the dispatch of an LED message whose payload is one of the six
\* tokens puts exactly one envelope on the TxQueue; the envelope carries a
\* CMD message with payload "LED+<COLOR>" for the colour of the token and is
\* addressed to the fixed control address.
C3_LedCommand ==
    [][(BuiltinDispatchStep /\ ValidLed(Head(RxQueue))) =>
              /\ Len(TxQueue') = Len(TxQueue) + 1
              /\ SubSeq(TxQueue', 1, Len(TxQueue)) = TxQueue
              /\ LET e == TxQueue'[Len(TxQueue')]
                     c == loads(e.data)
                 IN  /\ e.recipient = ControlAddress
                     /\ c.isMsg
                     /\ c.val.type = Str("CMD")
                     /\ c.val.payload = <<"LED", "+", LedColor(LedToken(Head(RxQueue)))>>]_vars

\* an LED message with an "OFF" token has been dispatched and its command
\* is on the TxQueue
C3_Witness ==
    /\ \E i \in 1..Len(dispatched) :
          dispatched[i].type = Str("LED") /\ dispatched[i].payload = Str("BLUEOFF")
    /\ \E j \in 1..Len(TxQueue) :
          /\ TxQueue[j].recipient = ControlAddress
          /\ loads(TxQueue[j].data).val.payload = <<"LED", "+", "BLUE">>

\* the record the event log holds for a message
Record(m) == m.type \o <<",">> \o m.payload \o <<",">> \o m.timestamp \o <<"\r\n">>

RECURSIVE ExpectedLog(_)
ExpectedLog(ms) ==
    IF ms = <<>> THEN <<>>
    ELSE (IF Head(ms).type \in {Str("EVENT"), Str("LED")} THEN Record(Head(ms))
          ELSE <<>>) \o ExpectedLog(Tail(ms))

\* C4: the event log holds exactly one record type,payload,timestamp for
\* every EVENT and every LED message dispatched, in dispatch order, and no
\* record for a message of another kind.
C4_Claim ==
    (\A w \in Workers : workers[w].args # "tuple") => logfile = ExpectedLog(dispatched)

\* C5: dispatching an EVENT message, a HEALTH message or a message of
\* unknown kind with the built-in rules adds no envelope to the TxQueue and
\* does not change the device list.
C5_NoResponse ==
    [][(BuiltinDispatchStep
           /\ Head(RxQueue).type \notin {Str("LED"), Str("DEVICE")}) =>
              /\ TxQueue' = TxQueue
              /\ Attached_Devices' = Attached_Devices]_vars

\* HEALTH/UNHEALTHY has been dispatched after an LED command was produced:
\* the report is on stderr and the TxQueue holds the LED command alone
C5_Witness ==
    /\ Len(dispatched) = 2
    /\ ValidLed(dispatched[1])
    /\ dispatched[2].type = Str("HEALTH")
    /\ dispatched[2].payload = Str("UNHEALTHY")
    /\ "DEVICE ERROR RESTART" \in stderr
    /\ Len(TxQueue) = 1
    /\ Attached_Devices = <<>>

\* a valid frame: the encoding of a message, here one addressed to the group
\* the ingress workers accept; serial devices write it with single quotes
\* and end the line with CR LF
ValidForUs(raw) ==
    \E type \in {"EVENT", "LED", "HEALTH", "DEVICE", "PING"} :
        /\ Len(raw) >= 6
        /\ raw[2].v = Str(type)
        /\ LET doc == dumps(khanda_message(Str(type), raw[3].v, DefaultGroup, raw[5].v))
           IN  \/ raw = doc
               \/ raw = SingleQuoted(doc) \o <<Ctl("CR"), Ctl("LF")>>

DecodedMsg(raw) == khanda_message(raw[2].v, raw[3].v, raw[4].v, raw[5].v)

\* a malformed frame: missing field, invalid encoding, truncated, no JSON
MalformedFrame(raw) == raw \in Malformed \/ Junk \in {raw[i] : i \in 1..Len(raw)}

C7_Claim == \A i \in 1..Len(RxQueue) : RxQueue[i].recipient = host

\* C8: when the injected dispatch function has failed on a message, the
\* worker running it is still in its loop.
C8_Claim ==
    parserFailed =>
        \A w \in Workers :
            (workers[w].target = "CMDWorker" /\ workers[w].args = "tuple") =>
                workers[w].st = "running"

\* C9: once stopWorkers has returned, every worker has left its loop and
\* neither the UDP socket nor any serial port is open.
C9_Claim ==
    [][nstops' = nstops + 1 =>
          /\ \A w \in 1..Len(workers') : workers'[w].st # "running"
          /\ sock' = "closed"
          /\ \A p \in 1..Len(serialPorts') : ~serialPorts'[p].open]_vars

\* C10: a failure the Egress Worker meets while it has an envelope to
\* transmit does not stop the worker.
C10_Claim ==
    [][\A w \in Workers : TxWorker(w) => workers'[w].st = "running"]_vars

\* C11: a read failure on one serial port does not stop serial ingestion:
\* after the failure the worker that met it is still running, and the
\* failing port is still open.
C11_Claim ==
    [][\A w \in Workers, p \in 1..Len(serialPorts) :
          (workers[w].reading = p /\ SerialRxWorker(w, p, TRUE)) =>
              /\ workers'[w].st = "running"
              /\ serialPorts'[p].open]_vars

\* C12: encoding a message with the JSON encoder and decoding the document
\* with the message decoder gives a message with the original type, payload,
\* recipient and timestamp, for fields of printable characters.
C12_RoundTrip ==
    decoded # <<>> =>
        /\ decoded[1].ok
        /\ decoded[1].isMsg
        /\ decoded[1].val.type = message.type
        /\ decoded[1].val.payload = message.payload
        /\ decoded[1].val.recipient = message.recipient
        /\ decoded[1].val.timestamp = message.timestamp

\* a message whose fields hold backslashes and double quotes has been
\* encoded, with escapes, and decoded
C12_Witness ==
    /\ decoded # <<>>
    /\ message.type = <<"\\", "\"">>
    /\ message.payload = <<"\"", "\\">>
    /\ message.timestamp = <<"\\", "n">>
    /\ document[3].v = <<"\\", "\"", "\\", "\\">>
    /\ decoded[1].val.payload = <<"\"", "\\">>

\* a call of connect() returns
ConnectStep == ScenarioConnects(scenario) /\ \E ok \in BOOLEAN : connect(ok)

\* C13: when connect() fails to bind the socket or to join the group, the
\* caller gets an error from it (not a plain return), and no worker runs on
\* the socket that was not bound.
C13_Claim ==
    [][/\ (ConnectStep /\ ~joined') => returned' # "None"
       /\ ("Error Binding Socket!" \in stderr' /\ ~joined') =>
              \A w \in 1..Len(workers') : workers'[w].st # "running"]_vars

\* a power instrument is attached: the last attach_PSU that returned 0 has
\* not been followed by a detach_PSU that returned 0
Attached == PSU_DEV # "None"

\* a call of detach_PSU() returns
DetachStep == ScenarioPSU(scenario) /\ \E closeFails \in BOOLEAN : detach_PSU(closeFails)

\* C14: detach_PSU returns -1 exactly when no power instrument is attached
\* (never attached, or detached since the last attach); with an instrument
\* attached it returns 0 when the port was closed and -2 when the close
\* failed.
C14_Claim ==
    [][DetachStep =>
          /\ (returned' = "-1") <=> ~Attached
          /\ Attached => \/ returned' = "0" /\ ~Attached'
                         \/ returned' = "-2" /\ Attached']_vars

\* the envelope QueueCommand is to put on the TxQueue for a payload
CommandEnvelope(e, CMD) ==
    /\ e.recipient = DefaultGroup
    /\ loads(e.data).isMsg
    /\ loads(e.data).val.type = Str("CMD")
    /\ loads(e.data).val.payload = CMD

\* C15: QueueCommand(CMD) puts exactly one envelope on the TxQueue, a
\* serialized CMD message with payload CMD addressed to the multicast group,
\* and returns 0.  (It may return -1, leaving the TxQueue unchanged, only
\* for a command that cannot be queued; a string payload on a constructed
\* server always can.)
C15_Claim ==
    [][\A CMD \in Commands(scenario) :
          QueueCommand(CMD) =>
              /\ returned' = "0"
              /\ Len(TxQueue') = Len(TxQueue) + 1
              /\ SubSeq(TxQueue', 1, Len(TxQueue)) = TxQueue
              /\ CommandEnvelope(TxQueue'[Len(TxQueue')], CMD)]_vars

\* a step in which a worker takes a packet from the RxQueue
DispatchStep == Len(dispatched') = Len(dispatched) + 1

\* a step of an Egress Worker that has an envelope to transmit
EgressStep == TxQueue # <<>> /\ \E w \in Workers : TxWorker(w)

\* C16: the queues are FIFO: a packet put on the RxQueue goes behind those
\* already there and the packet dispatched is the one at the head; an
\* envelope put on the TxQueue goes behind those already there and the
\* envelope the Egress Worker transmits is the one at the head, so responses
\* leave in the order their messages were dispatched.
C16_Claim ==
    [][/\ Len(RxQueue') > Len(RxQueue) =>
              SubSeq(RxQueue', 1, Len(RxQueue)) = RxQueue
       /\ DispatchStep =>
              /\ dispatched'[Len(dispatched')] = Head(RxQueue)
              /\ RxQueue' = Tail(RxQueue)
       /\ Len(TxQueue') > Len(TxQueue) =>
              SubSeq(TxQueue', 1, Len(TxQueue)) = TxQueue
       /\ EgressStep =>
              /\ Len(sent') > Len(sent)
              /\ sent'[Len(sent) + 1] = Datagram(Head(TxQueue))
              /\ TxQueue' = Tail(TxQueue)]_vars

\* a worker in its loop that reads from or writes to the serial ports
UsesPorts(worker) ==
    worker.target \in {"SerialRxWorker", "TxWorker"} /\ worker.st = "running"

\* a worker in its loop that reads from or writes to the UDP socket
UsesSocket(worker) ==
    worker.target \in {"RxWorker", "TxWorker"} /\ worker.st = "running"

\* C17: a serial port or the UDP socket is closed only when no worker that
\* uses it is in its loop, and no worker is in readline() on a closed port.
C17_ClosedAfterWorkers ==
    [][/\ serialPorts' # serialPorts =>
              \A p \in 1..Len(serialPorts) :
                  (serialPorts[p].open /\ ~serialPorts'[p].open) =>
                      \A w \in 1..Len(workers') : ~UsesPorts(workers'[w])
       /\ (sock = "open" /\ sock' = "closed") =>
              \A w \in 1..Len(workers') : ~UsesSocket(workers'[w])
       /\ workers' # workers \/ serialPorts' # serialPorts =>
              \A w \in 1..Len(workers') :
                  workers'[w].reading # 0 =>
                      serialPorts'[workers'[w].reading].open]_vars

\* stopWorkers has returned while a Serial Ingress worker is in readline()
\* on a port, and the port is open
C17_Witness ==
    /\ nstops > 0
    /\ \E w \in Workers :
          /\ workers[w].target = "SerialRxWorker"
          /\ workers[w].st = "running"
          /\ workers[w].reading # 0
          /\ serialPorts[workers[w].reading].open

\* C18: with the built-in rules no message ends the Dispatch Worker: every
\* thread that runs CMDWorker without an injected parser is still in its
\* loop, whatever it has dispatched.
C18_Claim ==
    \A w \in Workers :
        (workers[w].target = "CMDWorker" /\ workers[w].args = "()") =>
            workers[w].st = "running"

\* an LED payload that is none of the six tokens
MalformedLed(m) == m.type = Str("LED") /\ ~ValidLed(m)

\* a DEVICE payload that is not <deviceType>+<address>
MalformedDevice(m) == m.type = Str("DEVICE") /\ ~WellFormedDevice(m)

\* C19: the dispatch of a DEVICE message whose payload has no '+' or more
\* than one, or of an LED message whose payload is none of the six tokens,
\* puts nothing on the TxQueue and leaves the device list as it is.
C19_Claim ==
    [][(BuiltinDispatchStep
           /\ (MalformedLed(Head(RxQueue)) \/ MalformedDevice(Head(RxQueue)))) =>
              /\ TxQueue' = TxQueue
              /\ Attached_Devices' = Attached_Devices]_vars

\* the serial ports that are open, in the order of self.serialPorts
OpenPorts ==
    SelectSeq([i \in 1..Len(serialPorts) |-> i], LAMBDA i : serialPorts[i].open)

\* what is to leave for one envelope: a datagram to (recipient, port), and
\* the same data on every open serial port
Transmission(e) ==
    <<Datagram(e)>> \o [k \in 1..Len(OpenPorts) |-> SerialWrite(e, OpenPorts[k])]

\* C20: an Egress Worker that runs with an envelope on the TxQueue takes
\* the envelope at the head, once, sends it in one datagram to (recipient,
\* port), writes its data once to every open serial port, and marks the task
\* done; so every envelope put on the TxQueue is taken.
C20_Claim ==
    [][EgressStep =>
          /\ TxQueue' = Tail(TxQueue)
          /\ sent' = sent \o Transmission(Head(TxQueue))
          /\ txUnfinished' = txUnfinished - 1]_vars

\* the threads startWorkers created that run `target` and are in its loop
Started(target) ==
    {i \in 1..Len(threads) :
        /\ workers[threads[i]].target = target
        /\ workers[threads[i]].st = "running"}

\* C21: whatever calls of startWorkers and stopWorkers were made, at most
\* one thread is in the loop of CMDWorker and at most one in the loop of
\* TxWorker, so that the device list has one writer.
C21_Claim ==
    /\ Cardinality(Started("CMDWorker")) <= 1
    /\ Cardinality(Started("TxWorker")) <= 1

\* C22: every packet taken from the RxQueue is marked done once, by the
\* built-in rules and by an injected parser alike: between the passes of the
\* workers the unfinished-task count of the RxQueue is the number of packets
\* still on it, and zero when the queue is empty.
C22_Claim == rxUnfinished = Len(RxQueue)

=============================================================================
